---- MODULE Spec2Model ----
(***************************************************************************)
(* webmaze: a random undirected graph of pages (network.py) and the script *)
(* that links them (webmaze.py).                                           *)
(*                                                                         *)
(* The specifications share the variables:                                 *)
(*   SpecGen    Maze.__init__ / Maze._generate: codes, images, pages.       *)
(*   SpecLink   a constructed maze receiving arbitrary Maze.link calls.    *)
(*   Spec       the script of webmaze.py on a constructed maze: the        *)
(*              guaranteed path loop, then the noise loop.                 *)
(*   SpecCreate the same script on a smaller maze, followed by             *)
(*              Maze.create, once or again.                                *)
(*   SpecScript the script's call of network.Maze as it is written.        *)
(* Page indexes are 0-based as in the source; `pages` is a sequence, so    *)
(* the page with index k is pages[k + 1].  A page's links hold the indexes *)
(* of the linked pages, in list order.                                     *)
(***************************************************************************)
EXTENDS Integers, Sequences, FiniteSets, TLC

VARIABLES size, image_names, _codes, _images, pages, code, image, i, j,
          prev, cur, chance, pc, err, call, made, steps, visited,
          files, renders, out, removed

vars == <<size, image_names, _codes, _images, pages, code, image, i, j,
          prev, cur, chance, pc, err, call, made, steps, visited,
          files, renders, out, removed>>

\* files: the .html files of the directory maze/, file name -> content.
\* renders: the Page.create calls of the running (or last) Maze.create.
\* out: the content each page wrote at its latest Page.create.
\* removed: the names of the files the latest Maze.create removed.
outputs == <<files, renders, out, removed>>

\* steps: the step lengths random.randint has given the guaranteed path loop.
\* visited: the passes of the inner noise loop so far, each as
\* <<i, j, whether link(i, j) was called>>.
\* Both only record what the script did; no action reads them.
logs == <<steps, visited>>

\* ------------------------------------------------------------------ bounds
\* largest size given to Maze(size) in SpecGen
GenMaxSize == 3
\* largest number of entries of things.json in SpecGen
MaxImages == 3
\* largest maze receiving arbitrary link calls in SpecLink
LinkMaxSize == 3
\* largest n of the script in Spec
MaxSize == 5
\* largest n of the script when Maze.create follows, in SpecCreate
CreateMaxSize == 3

\* The 62^8 codes of _generate_code, cut down to a pool that is never
\* exhausted by GenMaxSize pages.
Codes == 1..(GenMaxSize + 1)

\* chance and random.random() in hundredths: chance in [0, 1], draws in [0, 1)
ChanceValues == {0, 40, 100}
Draws == {0, 39, 40, 99}

\* random.randint(1, 3)
StepsWide == 1..4

Steps == 1..3

\* ----------------------------------------------------------------- helpers
InSeq(x, s) == \E k \in 1..Len(s) : s[k] = x

Range(s) == {s[k] : k \in 1..Len(s)}

MinIsMax(a, b) == IF a < b THEN b ELSE a

Min(a, b) == IF a < b THEN a ELSE b

\* Python list indexing: a negative index counts from the end
InRange(idx, len) == -len <= idx /\ idx < len

PyIndex(idx, len) == IF idx < 0 THEN idx + len ELSE idx

Perms(S) == {f \in [1..Cardinality(S) -> S] : \A x \in S : \E k \in 1..Cardinality(S) : f[k] = x}

\* -------------------------------------------------------------------- Page
\* Page.__init__: the first page is 0.html, every other page <code>.html.
\* Codes are 1.., so the file name 0 is the name of no code.
Filename(index, c) == IF index = 0 THEN 0 ELSE c

NewPage(index, c, img) ==
    [index |-> index, code |-> c, image |-> img, links |-> <<>>,
     filename |-> Filename(index, c)]

LinksOf(ps, a) == ps[a + 1].links

\* Page.link, `other is self`
IsSelfNever(a, b) == FALSE

IsSelf(a, b) == a = b

\* Page.link, `other in self.links`
InLinksNever(ps, a, b) == FALSE

InLinks(ps, a, b) == InSeq(b, LinksOf(ps, a))

\* Page.link, the two appends
AppendOneSide(ps, a, b) == [ps EXCEPT ![a + 1].links = Append(@, b)]

AppendBoth(ps, a, b) ==
    [ps EXCEPT ![a + 1].links = Append(@, b), ![b + 1].links = Append(@, a)]

\* Page.link(self = a, other = b): the pages afterwards and the exception
PageLink(ps, a, b) ==
    IF IsSelf(a, b) THEN [pages |-> ps, err |-> "ValueError", call |-> <<a, b>>]
    ELSE IF InLinks(ps, a, b)
         THEN [pages |-> ps, err |-> "LinkExistsError", call |-> <<a, b>>]
         ELSE [pages |-> AppendBoth(ps, a, b), err |-> "none", call |-> <<a, b>>]

\* Maze.link(ai, bi): self.pages[ai].link(self.pages[bi])
MazeLink(ps, ai, bi) ==
    IF ~InRange(ai, Len(ps)) \/ ~InRange(bi, Len(ps))
    THEN [pages |-> ps, err |-> "IndexError", call |-> <<>>]
    ELSE PageLink(ps, PyIndex(ai, Len(ps)), PyIndex(bi, Len(ps)))

\* the latest call that created an edge, as the pair (self, other): a record
\* of the argument order that edge was created with
Made(r) == IF r.err = "none" THEN r.call ELSE made

\* -------------------------------------------------------- Maze construction
\* Maze._generate_code, `code not in self._codes`
CodeUnusedAlways(c, cs) == TRUE

CodeUnused(c, cs) == ~InSeq(c, cs)

\* Maze._generate_image, `image not in self._images`
ImageUnusedAlways(img, is) == TRUE

ImageUnused(img, is) == ~InSeq(img, is)

\* Maze(size) is called: nothing is issued yet, things.json holds its names
InitGen ==
    /\ size \in -1..GenMaxSize
    /\ \E n \in 0..MaxImages : image_names = [k \in 1..n |-> k]
    /\ _codes = <<>>
    /\ _images = <<>>
    /\ pages = <<>>
    /\ code = 0
    /\ image = 0
    /\ i = 0
    /\ pc = "new"
    /\ err = "none"
    /\ j = 0 /\ prev = 0 /\ cur = 0 /\ chance = 0 /\ call = <<>> /\ made = <<>>
    /\ steps = <<>> /\ visited = <<>>
    /\ files = <<>> /\ renders = <<>> /\ out = <<>> /\ removed = {}

\* Maze.__init__ up to the call of _generate: the names are read and
\* shuffled, and _generate enters its loop over range(size)
MazeInit ==
    /\ pc = "new"
    /\ image_names' \in Perms(Range(image_names))
    /\ pc' = IF 0 < size THEN "code" ELSE "ready"
    /\ UNCHANGED <<size, _codes, _images, pages, code, image, i, j, prev, cur,
                   chance, err, call, made, logs,
                   outputs>>

\* one pass of the loop of Maze._generate_code
GenerateCode ==
    /\ pc = "code"
    /\ \E c \in Codes :
         /\ code' = c
         /\ IF CodeUnused(c, _codes)
            THEN /\ _codes' = Append(_codes, c)
                 /\ pc' = "image"
                 /\ image' = 0
            ELSE UNCHANGED <<_codes, pc, image>>
    /\ UNCHANGED <<size, image_names, _images, pages, i, j, prev, cur, chance,
                   err, call, made, logs,
                   outputs>>

\* one pass of the loop of Maze._generate_image; when the image is new,
\* _generate goes on to build the page and append it
GenerateImage ==
    /\ pc = "image"
    /\ Len(image_names) > 0
    /\ \E k \in 1..Len(image_names) :
         /\ image' = image_names[k]
         /\ IF ImageUnused(image_names[k], _images)
            THEN /\ _images' = Append(_images, image_names[k])
                 /\ pages' = Append(pages, NewPage(i, code, image_names[k]))
                 /\ i' = i + 1
                 /\ pc' = IF i + 1 < size THEN "code" ELSE "ready"
            ELSE UNCHANGED <<_images, pages, i, pc>>
    /\ UNCHANGED <<size, image_names, _codes, code, j, prev, cur, chance,
                   err, call, made, logs,
                   outputs>>

\* random.choice of an empty list raises IndexError
GenerateImageEmpty ==
    /\ pc = "image"
    /\ Len(image_names) = 0
    /\ pc' = "crashed"
    /\ err' = "IndexError"
    /\ UNCHANGED <<size, image_names, _codes, _images, pages, code, image, i, j,
                   prev, cur, chance, call, made, logs,
                   outputs>>

NextGen == MazeInit \/ GenerateCode \/ GenerateImage \/ GenerateImageEmpty

SpecGen == InitGen /\ [][NextGen]_vars

\* a draw of a value not yet issued comes up eventually
AcceptCode == GenerateCode /\ pc' = "image"

AcceptImage == GenerateImage /\ Len(_images') > Len(_images)

FairSpecGen ==
    SpecGen /\ WF_vars(MazeInit) /\ WF_vars(AcceptCode) /\ WF_vars(AcceptImage)

\* the maze Maze(n) returns: n pages with distinct codes and images and no
\* links (codes and images named in order of issue)
Constructed(n) == [k \in 1..n |-> NewPage(k - 1, k, k)]

\* ------------------------------------------------------------ Maze.link
InitLink ==
    /\ size \in 0..LinkMaxSize
    /\ image_names = [k \in 1..size |-> k]
    /\ _codes = [k \in 1..size |-> k]
    /\ _images = [k \in 1..size |-> k]
    /\ pages = Constructed(size)
    /\ code = size
    /\ image = size
    /\ i = size
    /\ pc = "ready"
    /\ err = "none"
    /\ j = 0 /\ prev = 0 /\ cur = 0 /\ chance = 0 /\ call = <<>> /\ made = <<>>
    /\ steps = <<>> /\ visited = <<>>
    /\ files = <<>> /\ renders = <<>> /\ out = <<>> /\ removed = {}

\* a call maze.link(ai, bi) with any two integers
Link(ai, bi) ==
    /\ pc = "ready"
    /\ LET r == MazeLink(pages, ai, bi) IN
         /\ pages' = r.pages
         /\ err' = r.err
         /\ call' = r.call
         /\ made' = Made(r)
    /\ UNCHANGED <<size, image_names, _codes, _images, code, image, i, j, prev,
                   cur, chance, pc, logs,
                   outputs>>

NextLink == \E ai, bi \in (-size - 1)..size : Link(ai, bi)

SpecLink == InitLink /\ [][NextLink]_vars

\* ------------------------------------------------------------- webmaze.py
\* `while cur < n - 1`
Phase1ContinueShort(c, n) == c < n - 2

Phase1Continue(c, n) == c < n - 1

\* `for i in range(0, n - 2)`
OuterRange(n) == 0..(n - 3)

\* `for j in range(i + 1, n - 1)`
InnerRangeToEnd(a, n) == (a + 1)..(n - 1)

InnerRange(a, n) == (a + 1)..(n - 2)

\* the pairs the two nested loops visit, and the order they visit them in
NoisePairs(n) == UNION {{<<a, b>> : b \in InnerRange(a, n)} : a \in OuterRange(n)}

LexLess(p, q) == p[1] < q[1] \/ (p[1] = q[1] /\ p[2] < q[2])

LexMin(S) == CHOOSE p \in S : \A q \in S : p = q \/ LexLess(p, q)

PairsAfter(p, n) == {q \in NoisePairs(n) : LexLess(p, q)}

\* The script once its maze of n pages exists, prev = cur = 0.  The script
\* asks for the maze with Maze() and generate(n); network.py builds the same
\* n pages in Maze(size), whose result is Constructed(n).  n is 20 in the
\* script and any size up to MaxSize here; chance is 0.4 in the script and
\* any of ChanceValues here.
Init ==
    /\ size \in 0..MaxSize
    /\ chance \in ChanceValues
    /\ image_names = [k \in 1..size |-> k]
    /\ _codes = [k \in 1..size |-> k]
    /\ _images = [k \in 1..size |-> k]
    /\ pages = Constructed(size)
    /\ code = size
    /\ image = size
    /\ i = 0
    /\ j = 0
    /\ prev = 0
    /\ cur = 0
    /\ pc = "phase1"
    /\ err = "none"
    /\ call = <<>>
    /\ made = <<>>
    /\ steps = <<>>
    /\ visited = <<>>
    /\ files = <<>>
    /\ renders = <<>>
    /\ out = <<>>
    /\ removed = {}

\* one pass of the guaranteed path loop; an exception of link ends the script
Phase1Step ==
    /\ pc = "phase1"
    /\ Phase1Continue(cur, size)
    /\ \E step \in Steps :
         LET c == Min(size - 1, cur + step)
             r == MazeLink(pages, prev, c)
         IN /\ cur' = c
            /\ pages' = r.pages
            /\ err' = r.err
            /\ call' = r.call
            /\ made' = Made(r)
            /\ steps' = Append(steps, step)
            /\ IF r.err = "none"
               THEN prev' = c /\ pc' = pc
               ELSE prev' = prev /\ pc' = "crashed"
    /\ UNCHANGED <<size, image_names, _codes, _images, code, image, i, j, chance,
                   visited,
                   outputs>>

\* the guaranteed path loop ends and the noise loops start at their first pair
Phase1Done ==
    /\ pc = "phase1"
    /\ ~Phase1Continue(cur, size)
    /\ IF NoisePairs(size) = {}
       THEN pc' = "create" /\ UNCHANGED <<i, j>>
       ELSE /\ pc' = "noise"
            /\ i' = LexMin(NoisePairs(size))[1]
            /\ j' = LexMin(NoisePairs(size))[2]
    /\ UNCHANGED <<size, image_names, _codes, _images, pages, code, image, prev,
                   cur, chance, err, call, made, logs,
                   outputs>>

\* `except network.LinkExistsError: pass`
SwallowedNever(e) == FALSE

Swallowed(e) == e = "LinkExistsError"

\* `if random.random() < chance`
AttemptAtChance(d, ch) == d <= ch

Attempt(d, ch) == d < ch

\* one pass of the inner noise loop for the pair (i, j): draw, maybe link,
\* swallow LinkExistsError, go to the next pair
NoiseStep ==
    /\ pc = "noise"
    /\ \E d \in Draws :
         LET attempt == Attempt(d, chance)
             r == MazeLink(pages, i, j)
             raised == attempt /\ r.err # "none" /\ ~Swallowed(r.err)
         IN /\ IF attempt
               THEN /\ pages' = r.pages
                    /\ err' = r.err
                    /\ call' = r.call
                    /\ made' = Made(r)
               ELSE UNCHANGED <<pages, err, call, made>>
            /\ visited' = Append(visited, <<i, j, attempt>>)
            /\ IF raised
               THEN pc' = "crashed" /\ UNCHANGED <<i, j>>
               ELSE IF PairsAfter(<<i, j>>, size) = {}
                    THEN pc' = "create" /\ UNCHANGED <<i, j>>
                    ELSE /\ pc' = pc
                         /\ i' = LexMin(PairsAfter(<<i, j>>, size))[1]
                         /\ j' = LexMin(PairsAfter(<<i, j>>, size))[2]
    /\ UNCHANGED <<size, image_names, _codes, _images, code, image, prev, cur,
                   chance, steps,
                   outputs>>

Next == Phase1Step \/ Phase1Done \/ NoiseStep

Spec == Init /\ [][Next]_vars

\* the script is not stopped from outside: it runs its next pass
FairSpec == Spec /\ WF_vars(Next)

\* ------------------------------------------- Page.create, Maze.create
\* random.shuffle(self.links): the orders the list may be left in
ShufflesDropOne(l) ==
    IF l = <<>> THEN {<<>>}
    ELSE {[k \in 1..(Len(l) - 1) |-> l[f[k] + 1]] : f \in Perms(1..(Len(l) - 1))}

Shuffles(l) == {[k \in 1..Len(l) |-> l[f[k]]] : f \in Perms(1..Len(l))}

\* Maze.get_end(): get_page(-1)
EndPage(ps) == ps[PyIndex(-1, Len(ps)) + 1]

\* the template `link` filled in for the linked page b
LinkElement(ps, b) == [filename |-> ps[b + 1].filename, image |-> ps[b + 1].image]

\* the template `<position>_page` filled in for page a, whose links are in
\* the order `order`: what _get_template puts for $ID, $IMAGE, $END, $LINKS
Content(ps, a, position, order) ==
    [template |-> position,
     id |-> ps[a + 1].index,
     image |-> ps[a + 1].image,
     end |-> EndPage(ps).image,
     links |-> [k \in 1..Len(order) |-> LinkElement(ps, order[k])]]

\* open(name, "w+") and write: the file is made or overwritten
WriteFile(fs, name, content) ==
    [f \in DOMAIN fs \cup {name} |-> IF f = name THEN content ELSE fs[f]]

\* glob.glob('maze/*.html') and os.remove of each
ClearedNothing(fs) == fs

Cleared(fs) == <<>>

\* `self.pages[1:-1]`
MiddlePagesToEnd(n) == 1..(n - 1)

MiddlePages(n) == 1..(n - 2)

\* the Page.create calls of Maze.create, in order, for a maze of n >= 1 pages
RenderPlan(n) ==
    <<[index |-> 0, position |-> "start"]>>
    \o [k \in 1..Cardinality(MiddlePages(n)) |-> [index |-> k, position |-> "middle"]]
    \o <<[index |-> PyIndex(-1, n), position |-> "end"]>>

\* files an earlier run may have left in maze/: 0.html, and the file of a
\* code that no page written by Maze.create has (page 0 is written as 0.html)
StaleNames == {0, 1}

\* the script once its maze of n pages exists, in a directory maze/ that
\* holds any of the stale files
InitCreate ==
    /\ size \in 0..CreateMaxSize
    /\ chance \in ChanceValues
    /\ image_names = [k \in 1..size |-> k]
    /\ _codes = [k \in 1..size |-> k]
    /\ _images = [k \in 1..size |-> k]
    /\ pages = Constructed(size)
    /\ code = size
    /\ image = size
    /\ i = 0
    /\ j = 0
    /\ prev = 0
    /\ cur = 0
    /\ pc = "phase1"
    /\ err = "none"
    /\ call = <<>>
    /\ made = <<>>
    /\ steps = <<>>
    /\ visited = <<>>
    /\ \E S \in SUBSET StaleNames : files = [f \in S |-> "stale"]
    /\ renders = <<>>
    /\ out = <<>>
    /\ removed = {}

\* Maze.create up to its first Page.create: the old files are removed;
\* self.pages[0] of an empty maze raises IndexError.  The script calls
\* create once; a further call on the finished maze starts here as well.
MazeCreate ==
    /\ pc \in {"create", "done"}
    /\ files' = Cleared(files)
    /\ removed' = DOMAIN files \ DOMAIN Cleared(files)
    /\ renders' = <<>>
    /\ IF Len(pages) = 0
       THEN pc' = "crashed" /\ err' = "IndexError"
       ELSE pc' = "render" /\ err' = err
    /\ UNCHANGED <<size, image_names, _codes, _images, pages, code, image, i, j,
                   prev, cur, chance, call, made, logs, out>>

\* the next Page.create of Maze.create: the page's links are shuffled in
\* place, the templates filled in, the file written
RenderPage ==
    /\ pc = "render"
    /\ LET plan == RenderPlan(Len(pages))
           step == plan[Len(renders) + 1]
           a == step.index
       IN \E order \in Shuffles(pages[a + 1].links) :
            LET ps == [pages EXCEPT ![a + 1].links = order]
                content == Content(ps, a, step.position, order)
            IN /\ pages' = ps
               /\ files' = WriteFile(files, ps[a + 1].filename, content)
               /\ renders' = Append(renders, step)
               /\ out' = WriteFile(out, a, content)
               /\ pc' = IF Len(renders) + 1 = Len(plan) THEN "done" ELSE pc
    /\ UNCHANGED <<size, image_names, _codes, _images, code, image, i, j, prev,
                   cur, chance, err, call, made, logs, removed>>

NextCreate == Phase1Step \/ Phase1Done \/ NoiseStep \/ MazeCreate \/ RenderPage

SpecCreate == InitCreate /\ [][NextCreate]_vars

\* ------------------------------------------- webmaze.py against network.py
\* the arguments Maze.__init__ takes besides self: `def __init__(self, size)`
MazeInitParams == 1

\* the arguments the script gives it: `maze = network.Maze()`
ScriptMazeArgs == 0

\* the script before line 10, for n >= 2 pages and a things.json of n names
\* or more, in a directory maze/ that holds any of the stale files
InitScript ==
    /\ size \in 2..MaxSize
    /\ chance \in ChanceValues
    /\ \E n \in size..(size + 1) : image_names = [k \in 1..n |-> k]
    /\ _codes = <<>>
    /\ _images = <<>>
    /\ pages = <<>>
    /\ code = 0
    /\ image = 0
    /\ i = 0
    /\ j = 0
    /\ prev = 0
    /\ cur = 0
    /\ pc = "script"
    /\ err = "none"
    /\ call = <<>>
    /\ made = <<>>
    /\ steps = <<>>
    /\ visited = <<>>
    /\ \E S \in SUBSET StaleNames : files = [f \in S |-> "stale"]
    /\ renders = <<>>
    /\ out = <<>>
    /\ removed = {}

\* line 10, `maze = network.Maze()`: a call with the wrong number of
\* arguments raises TypeError before __init__ runs, and the script ends
ScriptMaze ==
    /\ pc = "script"
    /\ IF ScriptMazeArgs = MazeInitParams
       THEN pc' = "new" /\ err' = err
       ELSE pc' = "crashed" /\ err' = "TypeError"
    /\ UNCHANGED <<size, image_names, _codes, _images, pages, code, image, i, j,
                   prev, cur, chance, call, made, logs, outputs>>

NextScript == ScriptMaze

SpecScript == InitScript /\ [][NextScript]_vars

\* ----------------------------------------------------------- the graph
Indexes == 0..(Len(pages) - 1)

Linked(ps, a, b) == InSeq(b, ps[a + 1].links)

NoDuplicates(s) == \A k, l \in 1..Len(s) : s[k] = s[l] => k = l

RECURSIVE Closure(_, _)
Closure(ps, S) ==
    LET T == S \cup UNION {Range(ps[a + 1].links) : a \in S}
    IN IF T = S THEN S ELSE Closure(ps, T)

Connected(ps, a, b) == b \in Closure(ps, {a})

\* the latest call named two pages (no IndexError)
Called == call # <<>>

\* ---------------------------------------------------------------- claims
\* C1 (SpecLink): after any sequence of link calls, successful or failing,
\* page b is in page a's links if and only if page a is in page b's links.
SymmetricLinks ==
    \A a, b \in Indexes : Linked(pages, a, b) <=> Linked(pages, b, a)

\* two edges made, and the latest call failed
SymmetricLinksWitness ==
    /\ err = "LinkExistsError"
    /\ \E a \in Indexes : Len(pages[a + 1].links) >= 2
    /\ SymmetricLinks

\* C2 (Spec): for size >= 2, once the guaranteed path loop has finished,
\* page 0 and page size-1 are joined by a path of links, and stay joined in
\* every state of the noise loops.
StartReachesEnd ==
    (size >= 2 /\ pc \in {"noise", "create"}) => Connected(pages, 0, size - 1)

\* the noise loops are running on a maze of five pages or more, and their
\* latest attempt met an edge of the guaranteed path
StartReachesEndWitness ==
    /\ pc = "noise"
    /\ size >= 5
    /\ err = "LinkExistsError"
    /\ ~Linked(pages, 0, size - 1)
    /\ Connected(pages, 0, size - 1)

\* C3 (SpecLink): a call link(a, b) on two pages that already have an edge,
\* made by link(a, b) or by link(b, a), raises LinkExistsError and leaves
\* every page's links as they were.
LinkExistsKeepsGraph ==
    [][\A a, b \in Indexes :
          (call' = <<a, b>> /\ a # b /\ (Linked(pages, a, b) \/ Linked(pages, b, a)))
             => (err' = "LinkExistsError" /\ pages' = pages)]_vars

\* link(a, b) raised LinkExistsError for an edge that link(b, a) made
LinkExistsKeepsGraphWitness ==
    /\ err = "LinkExistsError"
    /\ made # <<>>
    /\ call = <<made[2], made[1]>>

NoDuplicateLinks == \A a \in Indexes : NoDuplicates(pages[a + 1].links)

\* a page with every other page in its links got a further link call
NoDuplicateLinksWitness ==
    /\ size >= 3
    /\ Called
    /\ call[1] # call[2]
    /\ err = "LinkExistsError"
    /\ Len(pages[call[1] + 1].links) = size - 1

\* C6 (SpecGen): at every point of page creation the codes issued so far are
\* pairwise distinct and so are the images, in the issued lists and on the
\* pages.
DistinctIssued ==
    /\ NoDuplicates(_codes)
    /\ NoDuplicates(_images)
    /\ \A k, l \in 1..Len(pages) :
         (pages[k].code = pages[l].code \/ pages[k].image = pages[l].image) => k = l

\* two pages are built and _generate_code has just drawn the first page's
\* code again
DistinctIssuedWitness ==
    /\ pc = "code"
    /\ Len(pages) >= 2
    /\ code = _codes[1]
    /\ Len(image_names) > Len(pages)

\* C7 (SpecGen): with fewer image names than pages, the draw of an image for
\* the first page that has no unused image left ends in ExhaustedPoolError.
Exhausted == \A k \in 1..Len(image_names) : InSeq(image_names[k], _images)

ExhaustedPoolFails ==
    (Len(image_names) < size /\ pc = "image" /\ image # 0 /\ Exhausted)
       => err = "ExhaustedPoolError"

\* C8 (FairSpecGen): with exactly `size` image names, generation ends with
\* `size` pages whose images are the image names, each used once.
ExactPool == Len(image_names) = size

ExactPoolDone ==
    /\ pc = "ready"
    /\ Len(pages) = size
    /\ {pages[k].image : k \in 1..Len(pages)} = Range(image_names)
    /\ \A k, l \in 1..Len(pages) : pages[k].image = pages[l].image => k = l

ExactPoolTerminates == ExactPool ~> ExactPoolDone

ExactPoolTerminatesWitness ==
    /\ size >= 3
    /\ ExactPool
    /\ ExactPoolDone

\* C9 (SpecGen): Maze(size) with size < 2 fails with InvalidSizeError and
\* creates no page and issues no code and no image.
InvalidSizeRejected ==
    size < 2 =>
       /\ Len(pages) = 0 /\ Len(_codes) = 0 /\ Len(_images) = 0
       /\ pc = "ready" => err = "InvalidSizeError"

\* C10 (Spec): for size >= 2, no pass of the noise loops changes the links of
\* page size-1.
NoiseKeepsEndLinks ==
    [][(pc = "noise" /\ size >= 2)
          => pages'[size].links = pages[size].links]_vars

\* the noise loops are over and pages 0, 1 and 2 are linked in a triangle,
\* which holds an edge that the guaranteed path, a chain, did not make
NoiseKeepsEndLinksWitness ==
    /\ pc = "create"
    /\ size >= 4
    /\ Len(pages[size].links) = 1
    /\ Linked(pages, 0, 1) /\ Linked(pages, 1, 2) /\ Linked(pages, 0, 2)

\* ------------------------------------------------- the guaranteed path
\* the pages the guaranteed path loop stands on, from 0, when randint gives
\* the step lengths st in a maze of n pages
RECURSIVE ChainFrom(_, _, _)
ChainFrom(c, st, n) ==
    IF st = <<>> THEN <<c>>
    ELSE <<c>> \o ChainFrom(IF c + Head(st) < n - 1 THEN c + Head(st) ELSE n - 1,
                            Tail(st), n)

Chain == ChainFrom(0, steps, size)

\* the edges between neighbours in a chain, as sets of two pages
ChainEdges(ch) == {{ch[k], ch[k + 1]} : k \in 1..(Len(ch) - 1)}

\* the edges of the graph, as sets of two pages
Edges(ps) ==
    UNION {{{a, b} : b \in Range(ps[a + 1].links)} : a \in 0..(Len(ps) - 1)}

\* the pairs the noise loops are to consider
LowerPairs(n) == {p \in (0..(n - 2)) \X (0..(n - 2)) : p[1] < p[2]}

VisitedPairs == {<<visited[k][1], visited[k][2]>> : k \in 1..Len(visited)}

\* C11 (Spec): the noise loops consider every pair (i, j) with
\* 0 <= i < j <= size-2 exactly once and no other pair, link never raises
\* ValueError, a LinkExistsError of a noise attempt leaves the graph as it
\* was and the loops go on, and the script never ends in an exception.
NoisePairsOnceAndSwallowed ==
    /\ [](/\ \A k, l \in 1..Len(visited) :
               (visited[k][1] = visited[l][1] /\ visited[k][2] = visited[l][2]) => k = l
          /\ VisitedPairs \subseteq LowerPairs(size)
          /\ pc = "create" => VisitedPairs = LowerPairs(size)
          /\ err # "ValueError"
          /\ pc # "crashed")
    /\ [][(pc = "noise" /\ err' = "LinkExistsError")
             => (pages' = pages /\ pc' \in {"noise", "create"}
                 /\ Len(visited') = Len(visited) + 1)]_vars

\* the noise loops are over after an attempt on an edge of the guaranteed
\* path, and after that attempt they made a new edge
NoisePairsOnceAndSwallowedWitness ==
    /\ pc = "create"
    /\ size >= 4
    /\ \E k \in 1..Len(visited) :
         /\ visited[k][3]
         /\ {visited[k][1], visited[k][2]} \in ChainEdges(Chain)
         /\ \E l \in (k + 1)..Len(visited) :
              /\ visited[l][3]
              /\ {visited[l][1], visited[l][2]} \notin ChainEdges(Chain)

\* C13 (Spec): with size = 2 the guaranteed path loop makes one link, the
\* edge (0, 1), the noise loops consider no pair, and the finished graph has
\* that edge and no other.
SizeTwoOneEdge ==
    size = 2 =>
       /\ pc # "noise"
       /\ visited = <<>>
       /\ Len(steps) <= 1
       /\ pc = "create" =>
             /\ Len(steps) = 1
             /\ pages[1].links = <<1>>
             /\ pages[2].links = <<0>>

\* the script has linked a maze of two pages, with the longest step and the
\* highest chance
SizeTwoOneEdgeWitness ==
    /\ size = 2
    /\ pc = "create"
    /\ chance = 100
    /\ steps = <<3>>
    /\ Edges(pages) = {{0, 1}}

\* C16 (FairSpec): for size >= 2 the guaranteed path loop ends, after at
\* most size-1 passes, on page size-1; every link it calls succeeds; its
\* edges are those of the chain c(k+1) = min(size-1, c(k) + step(k)) from 0,
\* which rises strictly.  With size = 5 and steps 2, 2 the edges are (0, 2)
\* and (2, 4) and no third step is drawn.
PathInv ==
    size >= 2 =>
       /\ Len(steps) <= size - 1
       /\ pc # "crashed"
       /\ \A k \in 1..(Len(Chain) - 1) : Chain[k] < Chain[k + 1]
       /\ pc = "phase1" =>
             /\ err = "none"
             /\ cur = Chain[Len(Chain)]
             /\ prev = cur
             /\ Edges(pages) = ChainEdges(Chain)
             /\ Cardinality(Edges(pages)) = Len(steps)
       /\ pc \in {"noise", "create"} =>
             /\ cur = size - 1
             /\ Chain[Len(Chain)] = size - 1
             /\ ChainEdges(Chain) \subseteq Edges(pages)
       /\ (size = 5 /\ Len(steps) >= 2 /\ steps[1] = 2 /\ steps[2] = 2) =>
             /\ steps = <<2, 2>>
             /\ ChainEdges(Chain) = {{0, 2}, {2, 4}}
             /\ pc = "phase1" => Edges(pages) = {{0, 2}, {2, 4}}

PathIsChain == []PathInv /\ <>(pc # "phase1")

\* the guaranteed path loop has just ended in a maze of five pages, on the
\* steps 2, 2
PathIsChainWitness ==
    /\ size = 5
    /\ pc = "noise"
    /\ visited = <<>>
    /\ steps = <<2, 2>>
    /\ Edges(pages) = {{0, 2}, {2, 4}}

\* C19 (Spec): in the finished graph of size >= 2, page size-1 has one
\* neighbour p, and max(0, size-4) <= p <= size-2.
EndHasOneNeighbour ==
    (size >= 2 /\ pc = "create") =>
       /\ Len(pages[size].links) = 1
       /\ pages[size].links[1] <= size - 2
       /\ pages[size].links[1] >= 0
       /\ pages[size].links[1] >= size - 4

\* a finished graph of five pages, all noise links made, whose last page is
\* linked from page 1, three pages before it
EndHasOneNeighbourWitness ==
    /\ size = 5
    /\ pc = "create"
    /\ chance = 100
    /\ pages[size].links = <<1>>
    /\ Len(pages[2].links) = 4

\* C20 (Spec): with chance = 0 the noise loops call link for no pair and the
\* finished graph has the edges of the guaranteed path and no other; with
\* chance = 1 the finished graph links every pair i < j <= size-2, and page
\* size-1 has its one edge of the guaranteed path.
ChanceExtremes ==
    /\ chance = 0 =>
          /\ \A k \in 1..Len(visited) : ~visited[k][3]
          /\ pc \in {"noise", "create"} => Edges(pages) = ChainEdges(Chain)
    /\ (chance = 100 /\ pc = "create") =>
          /\ \A k \in 1..Len(visited) : visited[k][3]
          /\ \A p \in LowerPairs(size) :
               Linked(pages, p[1], p[2]) /\ Linked(pages, p[2], p[1])
          /\ size >= 2 =>
                /\ Len(pages[size].links) = 1
                /\ {size - 1, pages[size].links[1]} \in ChainEdges(Chain)

\* a finished graph of five pages with chance = 1: every pair below the last
\* page was tried, and three of the six tries made an edge
ChanceExtremesWitness ==
    /\ size = 5
    /\ pc = "create"
    /\ chance = 100
    /\ Len(visited) = 6
    /\ Len(steps) = 4
    /\ Cardinality(Edges(pages)) = 7

\* ------------------------------------------------------------ rendering
\* the page the step to the primed state has rendered
Rendered == renders'[Len(renders')].index

\* the template Maze.create is to give the page with index a
Role(a) == IF a = 0 THEN "start" ELSE IF a = size - 1 THEN "end" ELSE "middle"

\* C12 (SpecCreate): a render of a page that was rendered before writes the
\* same id, the same own image, the same end image and the same set of link
\* fragments (and, in a maze of two pages or more, the same template) as the
\* render before; no render changes which pages are in any page's links, and
\* the links stay symmetric.
RenderAgainSameContent ==
    /\ [][pc = "render" =>
            /\ \A b \in Indexes :
                 Range(pages'[b + 1].links) = Range(pages[b + 1].links)
            /\ Rendered \in DOMAIN out =>
                 /\ out'[Rendered].id = out[Rendered].id
                 /\ out'[Rendered].image = out[Rendered].image
                 /\ out'[Rendered].end = out[Rendered].end
                 /\ Range(out'[Rendered].links) = Range(out[Rendered].links)
                 /\ Len(out'[Rendered].links) = Len(out[Rendered].links)
                 /\ size >= 2 => out'[Rendered].template = out[Rendered].template]_vars
    /\ [](\A a, b \in Indexes : Linked(pages, a, b) <=> Linked(pages, b, a))

\* a second Maze.create has rendered page 0 again, which has two links, and
\* the order it wrote them in is not the order they were made in
RenderAgainSameContentWitness ==
    /\ size = 3
    /\ pc = "render"
    /\ Len(renders) = 1
    /\ DOMAIN out = 0..2
    /\ pages[1].links = <<1, 2>>
    /\ out[0].links[1].filename = pages[2].filename

\* C14 (SpecScript): for size >= 2 and at least `size` image names, the
\* script runs without an error.
PipelineRunsClean ==
    (size >= 2 /\ Len(image_names) >= size) => (pc # "crashed" /\ err = "none")

\* C15 (SpecCreate): Maze.create removes every .html file of maze/ before it
\* writes a page, then writes each page under that page's filename; when it
\* is done the files are those of the maze's pages, `size` files: 0.html for
\* page 0 and <code>.html for every other page, each with what that page
\* wrote in this call.
FilesAreCurrentPages ==
    /\ pc \in {"render", "done"} =>
          /\ DOMAIN files = {pages[renders[k].index + 1].filename : k \in 1..Len(renders)}
          /\ \A k \in 1..Len(renders) :
               files[pages[renders[k].index + 1].filename] = out[renders[k].index]
    /\ pc = "done" =>
          /\ DOMAIN files = {0} \cup {pages[k].code : k \in 2..size}
          /\ Cardinality(DOMAIN files) = size

\* Maze.create is done in a maze of three pages, and it removed 0.html and
\* the file of a code that no page is written under
FilesAreCurrentPagesWitness ==
    /\ pc = "done"
    /\ size = 3
    /\ removed = {0, 1}
    /\ DOMAIN files = {0, 2, 3}

\* C17 (SpecCreate): a render leaves the rendered page's links in the order
\* they were in.
RenderKeepsOrder ==
    [][pc = "render" => pages'[Rendered + 1].links = pages[Rendered + 1].links]_vars

\* C18 (SpecCreate): for size >= 2, Maze.create renders every page once:
\* page 0 with the start template, page size-1 with the end template, every
\* page between with the middle template; the end image of every page
\* written is the image of page size-1.
RolesOnce ==
    size >= 2 =>
       /\ \A k, l \in 1..Len(renders) : renders[k].index = renders[l].index => k = l
       /\ \A k \in 1..Len(renders) : renders[k].position = Role(renders[k].index)
       /\ pc = "done" => {renders[k].index : k \in 1..Len(renders)} = 0..(size - 1)
       /\ \A a \in DOMAIN out :
            /\ out[a].template = Role(a)
            /\ out[a].id = a
            /\ out[a].end = pages[size].image

\* Maze.create is done in a maze of three pages, whose middle page has two
\* links
RolesOnceWitness ==
    /\ pc = "done"
    /\ size = 3
    /\ Len(renders) = 3
    /\ out[1].template = "middle"
    /\ Len(out[1].links) = 2

====
